---- MODULE Spec2Model ----
(***************************************************************************)
(* Model of the unofficial Ladder API client, src/src/index.js:            *)
(* buildUrl, HttpError, the LadderClient constructor, the shared _request  *)
(* helper and the endpoint wrappers.                                       *)
(*                                                                         *)
(* JavaScript values are tagged records [t |-> <typeof>, v |-> <payload>]. *)
(* Strings whose inner structure the code looks at (base URLs, header      *)
(* values, JSON texts) are sequences of lexical tokens, so that a regex    *)
(* replace, String.includes, JSON.stringify and JSON.parse are computed    *)
(* and not assumed.  A URL object is the record of its origin, pathname    *)
(* and searchParams list.                                                  *)
(***************************************************************************)
EXTENDS Integers, Sequences, FiniteSets, TLC

\* ------------------------------------------------------------- bounds
\* number of calls that may be in flight on the one client (SpecConc)
MaxCalls == 2
\* longest query string already present in a path handed to buildUrl
MaxPathParams == 2
\* longest query (entries of an object or of a URLSearchParams) handed to buildUrl
MaxQueryLen == 2
\* most slashes at the end of a base URL handed to the constructor
MaxSlashes == 2

\* ------------------------------------------------------ JavaScript values
Undefined == [t |-> "undefined"]
Null == [t |-> "null"]
Str(s) == [t |-> "string", v |-> s]
Num(n) == [t |-> "number", v |-> n]
Bool(b) == [t |-> "boolean", v |-> b]
\* an array of values
Arr(s) == [t |-> "array", v |-> s]
\* a plain object: its own enumerable entries <<key, value>>, in insertion order
Obj(s) == [t |-> "object", v |-> s]
\* an object that refers to itself (JSON.stringify throws on it)
Cyclic == [t |-> "cyclic"]
\* a URLSearchParams: its list of <<name, value>> pairs
Usp(s) == [t |-> "URLSearchParams", v |-> s]
\* a string given as its token sequence (base URLs)
UrlStr(s) == [t |-> "urlstring", v |-> s]
\* a body text given as its token sequence
Text(s) == [t |-> "text", v |-> s]

\* ToBoolean, as `!x` and `x || y` apply it
Truthy(x) ==
  CASE x.t \in {"undefined", "null"} -> FALSE
    [] x.t = "string" -> x.v # ""
    [] x.t = "number" -> x.v # 0
    [] x.t = "boolean" -> x.v
    [] x.t \in {"urlstring", "text"} -> x.v # <<>>
    [] OTHER -> TRUE

\* Number.prototype.toString on the small integers of the model
NumStr(n) ==
  CASE n = 0 -> "0"
    [] n = 1 -> "1"
    [] n = 2 -> "2"
    [] OTHER -> "NaN"

RECURSIVE JoinComma(_)
\* Array.prototype.join(",") on an array of strings
JoinComma(s) ==
  IF s = <<>> THEN ""
  ELSE IF Len(s) = 1 THEN s[1].v
  ELSE s[1].v \o "," \o JoinComma(Tail(s))

\* String(v) for the primitives a query mapping holds
StringOf(x) ==
  CASE x.t = "string" -> x.v
    [] x.t = "number" -> NumStr(x.v)
    [] x.t = "boolean" -> (IF x.v THEN "true" ELSE "false")
    [] x.t = "array" -> JoinComma(x.v)
    [] OTHER -> x.t

\* an Error object: its name and message
Error(name, message) == [name |-> name, message |-> message]
NoError == [name |-> "none"]

\* --------------------------------------------------------------- JSON
QUOTE == "\""

RECURSIVE stringifyValue(_)
RECURSIVE stringifyMembers(_)
\* the members of an object, comma separated
stringifyMembers(es) ==
  IF es = <<>> THEN <<>>
  ELSE <<QUOTE, es[1][1], QUOTE, ":">> \o stringifyValue(es[1][2])
       \o (IF Len(es) = 1 THEN <<>> ELSE <<",">> \o stringifyMembers(Tail(es)))

\* the JSON text of a serialisable value
stringifyValue(x) ==
  CASE x.t = "null" -> <<"null">>
    [] x.t = "number" -> <<NumStr(x.v)>>
    [] x.t = "boolean" -> <<IF x.v THEN "true" ELSE "false">>
    [] x.t = "string" -> <<QUOTE, x.v, QUOTE>>
    [] x.t = "object" -> <<"{">> \o stringifyMembers(x.v) \o <<"}">>
    [] OTHER -> <<>>

RECURSIVE HasCycle(_)
\* whether the value, or a value it holds, refers to itself
HasCycle(x) ==
  CASE x.t = "cyclic" -> TRUE
    [] x.t = "object" -> \E i \in 1..Len(x.v) : HasCycle(x.v[i][2])
    [] OTHER -> FALSE

\* JSON.stringify: the text, or the TypeError it throws on a cyclic structure
JsonStringify(x) ==
  IF HasCycle(x)
  THEN [ok |-> FALSE, error |-> Error("TypeError", "Converting circular structure to JSON")]
  ELSE [ok |-> TRUE, text |-> stringifyValue(x)]

ParseFail == [ok |-> FALSE]

StrNum(tok) ==
  CASE tok = "0" -> 0
    [] tok = "1" -> 1
    [] tok = "2" -> 2
    [] OTHER -> -1

RECURSIVE parseValue(_)
RECURSIVE parseMembers(_, _)
\* the members of an object after "{" or ",": [ok, val, rest]
parseMembers(ts, acc) ==
  IF Len(ts) < 4 \/ ts[1] # QUOTE \/ ts[3] # QUOTE \/ ts[4] # ":" THEN ParseFail
  ELSE LET r == parseValue(SubSeq(ts, 5, Len(ts)))
       IN IF ~r.ok \/ r.rest = <<>> THEN ParseFail
          ELSE LET es == Append(acc, <<ts[2], r.val>>)
               IN IF r.rest[1] = "}" THEN [ok |-> TRUE, val |-> Obj(es), rest |-> Tail(r.rest)]
                  ELSE IF r.rest[1] = "," THEN parseMembers(Tail(r.rest), es)
                  ELSE ParseFail

\* one JSON value at the head of a token sequence: [ok, val, rest]
parseValue(ts) ==
  IF ts = <<>> THEN ParseFail
  ELSE CASE ts[1] = "null" -> [ok |-> TRUE, val |-> Null, rest |-> Tail(ts)]
         [] ts[1] = "true" -> [ok |-> TRUE, val |-> Bool(TRUE), rest |-> Tail(ts)]
         [] ts[1] = "false" -> [ok |-> TRUE, val |-> Bool(FALSE), rest |-> Tail(ts)]
         [] StrNum(ts[1]) >= 0 -> [ok |-> TRUE, val |-> Num(StrNum(ts[1])), rest |-> Tail(ts)]
         [] ts[1] = QUOTE ->
              IF Len(ts) >= 3 /\ ts[3] = QUOTE
              THEN [ok |-> TRUE, val |-> Str(ts[2]), rest |-> SubSeq(ts, 4, Len(ts))]
              ELSE ParseFail
         [] ts[1] = "{" ->
              IF Len(ts) >= 2 /\ ts[2] = "}"
              THEN [ok |-> TRUE, val |-> Obj(<<>>), rest |-> SubSeq(ts, 3, Len(ts))]
              ELSE parseMembers(Tail(ts), <<>>)
         [] OTHER -> ParseFail

\* JSON.parse of a whole text: the value, or failure (a SyntaxError)
JsonParse(ts) ==
  LET r == parseValue(ts)
  IN IF r.ok /\ r.rest = <<>> THEN [ok |-> TRUE, val |-> r.val] ELSE ParseFail

\* ---------------------------------------------------------------- URLs
DEFAULT_ROCKY_BASE == <<"https://rocky-api.prod.ltdev.io">>
DEFAULT_WEBSITE_BASE == <<"https://www.joinladder.com">>

\* a path handed to buildUrl: its pathname and the query string already in it
Path(pathname, search) == [pathname |-> pathname, search |-> search]

\* URLSearchParams.prototype.set as append would do it (a faulty variant of spSet)
spSetAppending(list, k, v) == Append(list, <<k, v>>)

\* URLSearchParams.prototype.set: the first pair named k takes the value and the
\* other pairs named k are removed; with no such pair, the pair is appended
spSet(list, k, v) ==
  LET idx == {i \in 1..Len(list) : list[i][1] = k}
  IN IF idx = {} THEN Append(list, <<k, v>>)
     ELSE LET first == CHOOSE i \in idx : \A j \in idx : i <= j
          IN SubSeq(list, 1, first - 1) \o << <<k, v>> >>
             \o SelectSeq(SubSeq(list, first + 1, Len(list)), LAMBDA e : e[1] # k)

RECURSIVE objectParams(_, _)
\* the loop over Object.entries(query): undefined and null are skipped, the
\* others are set as strings
objectParams(entries, params) ==
  IF entries = <<>> THEN params
  ELSE LET e == Head(entries)
       IN IF e[2].t \in {"undefined", "null"}
          THEN objectParams(Tail(entries), params)
          ELSE objectParams(Tail(entries), spSet(params, e[1], StringOf(e[2])))

RECURSIVE mergeParams(_, _)
\* the loop over params.entries(): each pair is set on url.searchParams
mergeParams(search, params) ==
  IF params = <<>> THEN search
  ELSE mergeParams(spSet(search, Head(params)[1], Head(params)[2]), Tail(params))

\* whether new URL(path, base) accepts the base: an absolute URL, origin first
IsAbsoluteUrl(base) == Len(base) >= 1 /\ base[1] # "/"

\* buildUrl(base, path, query): the URL, or the TypeError of new URL
buildUrl(base, path, query) ==
  IF ~IsAbsoluteUrl(base)
  THEN [ok |-> FALSE, error |-> Error("TypeError", "Invalid URL")]
  ELSE LET params == IF ~Truthy(query) THEN <<>>
                     ELSE IF query.t = "URLSearchParams" THEN query.v
                     ELSE objectParams(query.v, <<>>)
       IN [ok |-> TRUE,
           url |-> [origin |-> base[1], pathname |-> path.pathname,
                    search |-> mergeParams(path.search, params)]]

\* --------------------------------------------------------- construction
\* a function value (an injected transport, or the runtime's fetch bound to globalThis)
Fn(name) == [t |-> "function", v |-> name]

\* a default parameter value: it applies to undefined only
Default(x, d) == IF x.t = "undefined" THEN d ELSE x

\* s.replace(/\/$/, ""): one trailing slash, when there is one, is removed
StripTrailingSlash(s) ==
  IF Len(s) > 0 /\ s[Len(s)] = "/" THEN SubSeq(s, 1, Len(s) - 1) ELSE s

\* the constructor with the transport looked up before the token is checked (a faulty variant)
LadderClientFetchFirst(opts, globalFetch) ==
  LET f == IF Truthy(opts.fetchImpl) THEN opts.fetchImpl
           ELSE IF globalFetch THEN Fn("fetch") ELSE Null
  IN IF ~Truthy(f)
     THEN [ok |-> FALSE,
           error |-> Error("Error", "No fetch implementation found; Node 18+ or provide fetchImpl")]
     ELSE IF ~Truthy(opts.token)
     THEN [ok |-> FALSE, error |-> Error("Error", "LadderClient requires a Bearer token")]
     ELSE [ok |-> TRUE,
           client |-> [token |-> opts.token,
                       rockyBaseUrl |-> StripTrailingSlash(
                           Default(opts.rockyBaseUrl, UrlStr(DEFAULT_ROCKY_BASE)).v),
                       websiteBaseUrl |-> StripTrailingSlash(
                           Default(opts.websiteBaseUrl, UrlStr(DEFAULT_WEBSITE_BASE)).v),
                       fetch |-> f]]

\* new LadderClient(opts) in a runtime that has (globalFetch) or has not a fetch:
\* the client, or the Error the constructor throws
LadderClient(opts, globalFetch) ==
  LET rockyBaseUrl == Default(opts.rockyBaseUrl, UrlStr(DEFAULT_ROCKY_BASE))
      websiteBaseUrl == Default(opts.websiteBaseUrl, UrlStr(DEFAULT_WEBSITE_BASE))
      f == IF Truthy(opts.fetchImpl) THEN opts.fetchImpl
           ELSE IF globalFetch THEN Fn("fetch") ELSE Null
  IN IF ~Truthy(opts.token)
     THEN [ok |-> FALSE, error |-> Error("Error", "LadderClient requires a Bearer token")]
     ELSE IF ~Truthy(f)
     THEN [ok |-> FALSE,
           error |-> Error("Error", "No fetch implementation found; Node 18+ or provide fetchImpl")]
     ELSE [ok |-> TRUE,
           client |-> [token |-> opts.token,
                       rockyBaseUrl |-> StripTrailingSlash(rockyBaseUrl.v),
                       websiteBaseUrl |-> StripTrailingSlash(websiteBaseUrl.v),
                       fetch |-> f]]

\* ------------------------------------------------------------ _request
ACCEPT == "application/json, text/plain;q=0.9,*/*;q=0.8"

\* the base resolved to the primary host whatever the selector (a faulty variant)
ResolveBaseAlwaysRocky(cl, base) == cl.rockyBaseUrl

\* base === "website" ? this.websiteBaseUrl : this.rockyBaseUrl
ResolveBase(cl, base) ==
  IF base = Str("website") THEN cl.websiteBaseUrl ELSE cl.rockyBaseUrl

\* the body test as a truthiness test (a faulty variant)
HasBodyTruthy(body, method) == Truthy(body) /\ method # Str("GET")

\* body !== undefined && body !== null && method !== "GET"
HasBody(body, method) ==
  body.t # "undefined" /\ body.t # "null" /\ method # Str("GET")

\* the part of _request before the transport is called: the URL and the init
\* handed to the transport, or the error thrown while building them
prepareRequest(cl, d) ==
  LET base == Default(d.base, Str("rocky"))
      method == Default(d.method, Str("GET"))
      u == buildUrl(ResolveBase(cl, base), d.path, d.query)
      headers == ("Authorization" :> ("Bearer " \o cl.token.v)) @@ ("Accept" :> ACCEPT)
  IN IF ~u.ok THEN [ok |-> FALSE, error |-> u.error]
     ELSE IF HasBody(d.body, method)
     THEN LET s == JsonStringify(d.body)
          IN IF ~s.ok THEN [ok |-> FALSE, error |-> s.error]
             ELSE [ok |-> TRUE, url |-> u.url,
                   init |-> [method |-> method,
                             headers |-> headers @@ ("Content-Type" :> "application/json"),
                             body |-> Text(s.text)]]
     ELSE [ok |-> TRUE, url |-> u.url,
           init |-> [method |-> method, headers |-> headers, body |-> Undefined]]

\* a Response: status, statusText, the content-type header (null when missing),
\* the body text, and whether the body stream can be read to its end
Response(status, statusText, contentType, body, readable) ==
  [status |-> status, statusText |-> statusText, contentType |-> contentType,
   body |-> body, readable |-> readable]

\* res.ok read as "not a client or server error" (a faulty variant)
ResOkBelow400(res) == res.status < 400

\* Response.ok
ResOk(res) == res.status >= 200 /\ res.status <= 299

\* the content-type test as an equality (a faulty variant)
IsJsonExact(res) ==
  (IF Truthy(res.contentType) THEN res.contentType.v ELSE <<>>) = <<"application/json">>

\* (res.headers.get("content-type") || "").includes("application/json")
IsJson(res) ==
  LET ct == IF Truthy(res.contentType) THEN res.contentType.v ELSE <<>>
  IN \E i \in 1..Len(ct) : ct[i] = "application/json"

\* the try/catch around the body read: which reader is called and the value of
\* `parsed`; whatever the reader throws is caught and leaves null
readBody(res) ==
  IF IsJson(res)
  THEN [reader |-> "json",
        parsed |-> IF res.readable /\ JsonParse(res.body).ok
                   THEN JsonParse(res.body).val ELSE Null]
  ELSE [reader |-> "text",
        parsed |-> IF res.readable THEN Text(res.body) ELSE Null]

HttpError(message, status, statusText, url, body) ==
  [name |-> "HttpError", message |-> message, status |-> status,
   statusText |-> statusText, url |-> url, body |-> body]

\* how a call ends, as its caller sees it
Pending == [kind |-> "pending"]
Resolved(v) == [kind |-> "resolved", value |-> v]
Rejected(e) == [kind |-> "rejected", error |-> e]
\* an exception that unwinds the caller's own stack
Thrown(e) == [kind |-> "thrown", error |-> e]

\* a throw inside an async function: the promise it returned is rejected
AsyncThrow(e) == Rejected(e)

\* the end of _request: HttpError on !res.ok, else the parsed body
settle(url, res, parsed) ==
  IF ~ResOk(res)
  THEN AsyncThrow(HttpError(<<"HTTP", res.status, res.statusText, "for", url>>,
                            res.status, res.statusText, url, parsed))
  ELSE Resolved(parsed)

\* ---------------------------------------------------- endpoint wrappers
\* the descriptor a wrapper hands to _request
Req(base, pathname, query) ==
  [base |-> Str(base), path |-> Path(pathname, <<>>), query |-> query,
   method |-> Undefined, body |-> Undefined]

\* a wrapper's validation throwing, and a wrapper reaching its _request call
Fail(message) == [ok |-> FALSE, error |-> Error("Error", message)]
Ok(req) == [ok |-> TRUE, req |-> req]

\* encodeURIComponent on the identifiers of the model
EncodeURIComponent(s) ==
  CASE s = "a/b" -> "a%2Fb"
    [] OTHER -> s

getMe == Ok(Req("rocky", "/users/me", Undefined))

listTeams == Ok(Req("rocky", "/v1/listTeams", Undefined))

getUserProfileCalendar(p) ==
  IF ~Truthy(p.userID) THEN Fail("userID required")
  ELSE IF ~Truthy(p.firstDateStr) \/ ~Truthy(p.lastDateStr)
  THEN Fail("firstDateStr and lastDateStr required")
  ELSE IF ~Truthy(p.ianaTimezoneID) THEN Fail("ianaTimezoneID required")
  ELSE Ok(Req("rocky", "/v1/getUserProfileCalendar",
              Obj(<< <<"userID", p.userID>>, <<"firstDateStr", p.firstDateStr>>,
                     <<"lastDateStr", p.lastDateStr>>,
                     <<"ianaTimezoneID", p.ianaTimezoneID>> >>)))

getWorkoutJournalSummary(p) ==
  IF ~Truthy(p.userID) THEN Fail("userID required")
  ELSE Ok(Req("rocky", "/v1/getWorkoutJournalSummary", Obj(<< <<"userID", p.userID>> >>)))

getWorkout(p) ==
  IF ~Truthy(p.workoutID) THEN Fail("workoutID required")
  ELSE Ok(Req("website",
              "/api/workouts/" \o EncodeURIComponent(StringOf(p.workoutID)), Undefined))

getDetailedWorkoutSession(p) ==
  IF ~Truthy(p.workoutSessionID) THEN Fail("workoutSessionID required")
  ELSE Ok(Req("rocky", "/v1/getDetailedWorkoutSession",
              Obj(<< <<"workoutSessionID", p.workoutSessionID>> >>)))

\* getWorkoutMovementData without its test for an empty array (a faulty variant)
getWorkoutMovementDataAnyArray(p) ==
  IF ~Truthy(p.userID) THEN Fail("userID required")
  ELSE IF ~Truthy(p.movementIDs) THEN Fail("movementIDs required")
  ELSE Ok(Req("rocky", "/v1/getWorkoutMovementData",
              Obj(<< <<"userID", p.userID>>,
                     <<"movementIDs", Str(StringOf(p.movementIDs))>> >>)))

getWorkoutMovementData(p) ==
  IF ~Truthy(p.userID) THEN Fail("userID required")
  ELSE IF ~Truthy(p.movementIDs) \/ (p.movementIDs.t = "array" /\ Len(p.movementIDs.v) = 0)
  THEN Fail("movementIDs required")
  ELSE LET ids == IF p.movementIDs.t = "array"
                  THEN Str(JoinComma(p.movementIDs.v)) ELSE p.movementIDs
       IN Ok(Req("rocky", "/v1/getWorkoutMovementData",
                 Obj(<< <<"userID", p.userID>>, <<"movementIDs", ids>> >>)))

listWorkoutJournalRecommendationsV2(p) ==
  IF ~Truthy(p.userID) THEN Fail("userID required")
  ELSE IF ~Truthy(p.workoutID) THEN Fail("workoutID required")
  ELSE Ok(Req("rocky", "/v1/listWorkoutJournalRecommendationsV2",
              Obj(<< <<"userID", p.userID>>, <<"workoutID", p.workoutID>> >>)))

\* the method of the client a caller invokes; "_request" is the helper called
\* directly with a descriptor, as the tests do
Method(op, args) ==
  CASE op = "getMe" -> getMe
    [] op = "listTeams" -> listTeams
    [] op = "getUserProfileCalendar" -> getUserProfileCalendar(args)
    [] op = "getWorkoutJournalSummary" -> getWorkoutJournalSummary(args)
    [] op = "getWorkout" -> getWorkout(args)
    [] op = "getDetailedWorkoutSession" -> getDetailedWorkoutSession(args)
    [] op = "getWorkoutMovementData" -> getWorkoutMovementData(args)
    [] op = "listWorkoutJournalRecommendationsV2" -> listWorkoutJournalRecommendationsV2(args)
    [] OTHER -> Ok(args)

\* ---------------------------------------------------------------- state
VARIABLES
  hasGlobalFetch,  \* whether the runtime has a native fetch
  ctorOpts,        \* the options the constructor was called with
  ctorError,       \* the Error the constructor threw
  client,          \* the constructed client
  calls,           \* the calls on the client, by call number
  built            \* buildUrl called on its own: its arguments and its result

vars == <<hasGlobalFetch, ctorOpts, ctorError, client, calls, built>>

NoOpts == [token |-> "none"]
NoClient == [token |-> "none"]
NoReq == [ok |-> FALSE]
NoRes == [status |-> 0]
NotBuilt == [ok |-> "none"]

CallIds == 1..MaxCalls

\* a call that has not been made
IdleCall ==
  [pc |-> "idle", op |-> "none", args |-> Undefined, desc |-> Undefined,
   fetched |-> 0, req |-> NoReq, failure |-> NoError, res |-> NoRes,
   reader |-> "none", parsed |-> Undefined, out |-> Pending]

\* ---------------------------------------------------------- input sets
\* what a caller passes for a required string parameter
ParamVals == {Undefined, Str(""), Str("u1")}
DateVals == {Undefined, Str(""), Str("2024-10-27")}
WorkoutVals == {Undefined, Null, Str(""), Str("w1"), Str("a/b")}
MovementVals == {Undefined, Str(""), Str("m1"), Arr(<<>>), Arr(<<Str("a"), Str("b")>>)}

\* method and body of the descriptors handed to _request directly
MethodBodies ==
  {<<Undefined, Undefined>>, <<Str("GET"), Obj(<< <<"a", Num(1)>> >>)>>,
   <<Str("POST"), Obj(<< <<"a", Num(1)>> >>)>>, <<Str("POST"), Undefined>>,
   <<Str("POST"), Null>>, <<Str("POST"), Num(0)>>, <<Str("DELETE"), Str("")>>,
   <<Str("POST"), Obj(<< <<"self", Cyclic>> >>)>>}
BaseSelectors == {Undefined, Null, Str("rocky"), Str("website"), Str("webiste")}

Invocation(op, args) == [op |-> op, args |-> args]

Invocations ==
  {Invocation("getMe", Undefined), Invocation("listTeams", Undefined)}
  \cup {Invocation("getUserProfileCalendar",
                   [userID |-> u, firstDateStr |-> f, lastDateStr |-> l, ianaTimezoneID |-> z]) :
          u \in ParamVals, f \in DateVals, l \in DateVals,
          z \in {Undefined, Str(""), Str("America/Los_Angeles")}}
  \cup {Invocation("getWorkoutJournalSummary", [userID |-> u]) : u \in ParamVals}
  \cup {Invocation("getWorkout", [workoutID |-> w]) : w \in WorkoutVals}
  \cup {Invocation("getDetailedWorkoutSession", [workoutSessionID |-> w]) : w \in ParamVals}
  \cup {Invocation("getWorkoutMovementData", [userID |-> u, movementIDs |-> m]) :
          u \in ParamVals, m \in MovementVals}
  \cup {Invocation("listWorkoutJournalRecommendationsV2", [userID |-> u, workoutID |-> w]) :
          u \in ParamVals, w \in {Undefined, Str(""), Str("w1")}}
  \cup {Invocation("_request",
                   [base |-> b, path |-> Path("/v1/custom", <<>>), query |-> Undefined,
                    method |-> mb[1], body |-> mb[2]]) :
          b \in BaseSelectors, mb \in MethodBodies}

\* the calls issued concurrently in SpecConc
ConcInvocations ==
  {Invocation("getMe", Undefined),
   Invocation("getWorkout", [workoutID |-> Str("w1")]),
   Invocation("getWorkoutJournalSummary", [userID |-> Undefined]),
   Invocation("_request",
              [base |-> Str("rocky"), path |-> Path("/v1/custom", <<>>), query |-> Undefined,
               method |-> Str("POST"), body |-> Obj(<< <<"a", Num(1)>> >>)])}

StatusLines ==
  {<<199, "">>, <<200, "OK">>, <<299, "">>, <<300, "Multiple Choices">>, <<404, "Not Found">>}
ContentTypes ==
  {Null, Text(<<"application/json">>), Text(<<"application/json", "; charset=utf-8">>),
   Text(<<"text/plain">>), Text(<<"application/problem+json">>)}
Bodies ==
  {<<>>, <<"plain">>, <<"null">>, <<QUOTE, "plain", QUOTE>>,
   stringifyValue(Obj(<< <<"error", Str("nope")>> >>)),
   <<"{", QUOTE, "error", QUOTE, ":">>}

\* what the transport may resolve with; a body stream that breaks has no text
Responses ==
  {Response(sl[1], sl[2], ct, b, TRUE) : sl \in StatusLines, ct \in ContentTypes, b \in Bodies}
  \cup {Response(sl[1], sl[2], ct, <<>>, FALSE) : sl \in StatusLines, ct \in ContentTypes}

ConcResponses ==
  {Response(200, "OK", Text(<<"application/json">>),
            stringifyValue(Obj(<< <<"ok", Bool(TRUE)>> >>)), TRUE),
   Response(404, "Not Found", Text(<<"application/json">>),
            stringifyValue(Obj(<< <<"error", Str("nope")>> >>)), TRUE),
   Response(200, "OK", Text(<<"text/plain">>), <<"plain">>, TRUE)}

\* what the transport may reject with
NetErrors ==
  {Error("TypeError", "fetch failed"), Error("TimeoutError", "The operation timed out")}

CtorOpts(token, rocky, website, fetchImpl) ==
  [token |-> token, rockyBaseUrl |-> rocky, websiteBaseUrl |-> website, fetchImpl |-> fetchImpl]

\* constructor options of Spec: the malformed base "" makes new URL throw
CtorOptions ==
  {CtorOpts(t, r, Undefined, f) :
     t \in {Undefined, Str(""), Str("t")},
     r \in {Undefined, UrlStr(<<>>), UrlStr(<<"https://api.test", "/">>)},
     f \in {Undefined, Fn("fetchImpl")}}

\* constructor options of SpecConc
ConcCtorOptions ==
  {CtorOpts(Str("t"), Undefined, w, Fn("fetchImpl")) :
     w \in {Undefined, UrlStr(<<"https://www.test", "/">>)}}

\* --------------------------------------------------------------- actions
\* new LadderClient(opts): the client is kept, or the thrown Error is
Construct(opts) ==
  /\ ctorOpts = NoOpts
  /\ ctorOpts' = opts
  /\ LET r == LadderClient(opts, hasGlobalFetch)
     IN IF r.ok THEN client' = r.client /\ ctorError' = NoError
        ELSE client' = NoClient /\ ctorError' = r.error
  /\ UNCHANGED <<hasGlobalFetch, calls, built>>

\* the synchronous part of a call, up to its first await: the wrapper's
\* validation, then _request up to the call of the transport
InvokeCall(c, op, args) ==
  /\ client # NoClient
  /\ calls[c].pc = "idle"
  /\ LET m == Method(op, args)
         started == [IdleCall EXCEPT !.op = op, !.args = args]
     IN IF ~m.ok
        THEN calls' = [calls EXCEPT ![c] =
                         [started EXCEPT !.pc = "done", !.out = AsyncThrow(m.error)]]
        ELSE LET r == prepareRequest(client, m.req)
             IN IF ~r.ok
                THEN calls' = [calls EXCEPT ![c] =
                                 [started EXCEPT !.pc = "done", !.desc = m.req,
                                                 !.out = AsyncThrow(r.error)]]
                ELSE calls' = [calls EXCEPT ![c] =
                                 [started EXCEPT !.pc = "fetch", !.desc = m.req,
                                                 !.fetched = 1,
                                                 !.req = [ok |-> TRUE, url |-> r.url,
                                                          init |-> r.init]]]

\* a call that also keeps the base it resolved on the instance (a faulty variant)
InvokeCachingBase(c, op, args) ==
  /\ InvokeCall(c, op, args)
  /\ client' = [client EXCEPT !.rockyBaseUrl =
                  IF op = "getWorkout" THEN client.websiteBaseUrl ELSE @]
  /\ UNCHANGED <<hasGlobalFetch, ctorOpts, ctorError, built>>

\* a method of the client is called: no field of the instance is assigned
Invoke(c, op, args) ==
  /\ InvokeCall(c, op, args)
  /\ UNCHANGED <<hasGlobalFetch, ctorOpts, ctorError, client, built>>

\* the transport resolves with a response; the body read is awaited next
FetchResolve(c, res) ==
  /\ calls[c].pc = "fetch"
  /\ calls' = [calls EXCEPT ![c].pc = "body", ![c].res = res]
  /\ UNCHANGED <<hasGlobalFetch, ctorOpts, ctorError, client, built>>

\* a transport failure reported as an HttpError (a faulty variant)
FetchRejectWrapped(c, e) ==
  /\ calls[c].pc = "fetch"
  /\ calls' = [calls EXCEPT ![c].pc = "done", ![c].failure = e,
                            ![c].out = Rejected(HttpError(e.message, 0, "",
                                                          calls[c].req.url, Null))]
  /\ UNCHANGED <<hasGlobalFetch, ctorOpts, ctorError, client, built>>

\* the transport rejects: the await rethrows and nothing catches it
FetchReject(c, e) ==
  /\ calls[c].pc = "fetch"
  /\ calls' = [calls EXCEPT ![c].pc = "done", ![c].failure = e, ![c].out = AsyncThrow(e)]
  /\ UNCHANGED <<hasGlobalFetch, ctorOpts, ctorError, client, built>>

\* the body read completes, and _request ends
ReadBody(c) ==
  /\ calls[c].pc = "body"
  /\ LET b == readBody(calls[c].res)
     IN calls' = [calls EXCEPT ![c].pc = "done", ![c].reader = b.reader,
                               ![c].parsed = b.parsed,
                               ![c].out = settle(calls[c].req.url, calls[c].res, b.parsed)]
  /\ UNCHANGED <<hasGlobalFetch, ctorOpts, ctorError, client, built>>

\* the caller has consumed the outcome; the call number is free again
Release(c) ==
  /\ calls[c].pc = "done"
  /\ calls' = [calls EXCEPT ![c] = IdleCall]
  /\ UNCHANGED <<hasGlobalFetch, ctorOpts, ctorError, client, built>>

\* ------------------------------------------------------- specifications
Init ==
  /\ hasGlobalFetch \in BOOLEAN
  /\ ctorOpts = NoOpts
  /\ ctorError = NoError
  /\ client = NoClient
  /\ calls = [c \in CallIds |-> IdleCall]
  /\ built = NotBuilt

\* one client, one call at a time, over the full input sets
Next ==
  \/ ctorOpts = NoOpts /\ \E o \in CtorOptions : Construct(o)
  \/ calls[1].pc = "idle" /\ \E i \in Invocations : Invoke(1, i.op, i.args)
  \/ calls[1].pc = "fetch" /\ \E r \in Responses : FetchResolve(1, r)
  \/ \E e \in NetErrors : FetchReject(1, e)
  \/ ReadBody(1)
  \/ Release(1)

Spec == Init /\ [][Next]_vars

\* one client, MaxCalls calls interleaved at their suspension points
NextConc ==
  \/ ctorOpts = NoOpts /\ \E o \in ConcCtorOptions : Construct(o)
  \/ \E c \in CallIds :
       \/ \E i \in ConcInvocations : Invoke(c, i.op, i.args)
       \/ \E r \in ConcResponses : FetchResolve(c, r)
       \/ \E e \in NetErrors : FetchReject(c, e)
       \/ ReadBody(c)
       \/ Release(c)

SpecConc == Init /\ [][NextConc]_vars

\* ------------------------------------------------- buildUrl on its own
SeqsUpTo(S, n) == UNION {[1..k -> S] : k \in 0..n}

\* sequences whose entries have pairwise different keys (the entries of an object)
DistinctKeys(s) == \A i, j \in 1..Len(s) : i # j => s[i][1] # s[j][1]

UrlBases == {<<"https://api.test">>, <<"https://api.test", "/">>, <<>>}
\* query strings already in the path: pairs over two names and two values
PathSearches == SeqsUpTo({"a", "b"} \X {"1", "2"}, MaxPathParams)
\* values of a query mapping
QueryVals == {Undefined, Null, Str("x"), Num(0), Bool(FALSE)}
Queries ==
  {Undefined}
  \cup {Obj(s) : s \in {q \in SeqsUpTo({"a", "b", "c"} \X QueryVals, MaxQueryLen) :
                          DistinctKeys(q)}}
  \cup {Usp(s) : s \in SeqsUpTo({"a", "c"} \X {"x", "y"}, MaxQueryLen)}

\* buildUrl(base, path, query) is called
BuildUrlCall(base, search, query) ==
  /\ built = NotBuilt
  /\ built' = [ok |-> "called", base |-> base, path |-> Path("/v1/endpoint", search),
               query |-> query,
               result |-> buildUrl(base, Path("/v1/endpoint", search), query)]
  /\ UNCHANGED <<hasGlobalFetch, ctorOpts, ctorError, client, calls>>

NextUrl ==
  built = NotBuilt /\ \E b \in UrlBases, s \in PathSearches, q \in Queries : BuildUrlCall(b, s, q)

\* buildUrl reads no state of the runtime
InitUrl == Init /\ hasGlobalFetch

SpecUrl == InitUrl /\ [][NextUrl]_vars

\* ------------------------------------------- the constructor on its own
Slashes(n) == [i \in 1..n |-> "/"]

\* base URL overrides: absent, the empty string, a host with 0..MaxSlashes slashes
BaseOverrides ==
  {Undefined, UrlStr(<<>>)}
  \cup {UrlStr(<<"https://api.test">> \o Slashes(n)) : n \in 0..MaxSlashes}

AllCtorOptions ==
  {CtorOpts(t, r, w, f) :
     t \in {Undefined, Null, Str(""), Str("t"), Str("eyJ")},
     r \in BaseOverrides, w \in BaseOverrides,
     f \in {Undefined, Fn("fetchImpl")}}

NextCtor == ctorOpts = NoOpts /\ \E o \in AllCtorOptions : Construct(o)

SpecCtor == Init /\ [][NextCtor]_vars

\* ================================================================ claims
\* a call whose synchronous part has run
Started(c) == calls[c].pc # "idle"
\* a call that received a response and finished reading it
Answered(c) == calls[c].pc = "done" /\ calls[c].res # NoRes
\* a call that was handed to the transport
Sent(c) == calls[c].req # NoReq

\* the required parameters of each wrapper
Required(op) ==
  CASE op = "getUserProfileCalendar" ->
         {"userID", "firstDateStr", "lastDateStr", "ianaTimezoneID"}
    [] op = "getWorkoutJournalSummary" -> {"userID"}
    [] op = "getWorkout" -> {"workoutID"}
    [] op = "getDetailedWorkoutSession" -> {"workoutSessionID"}
    [] op = "getWorkoutMovementData" -> {"userID", "movementIDs"}
    [] op = "listWorkoutJournalRecommendationsV2" -> {"userID", "workoutID"}
    [] OTHER -> {}

\* absent (undefined, null) or empty (the empty string; for movementIDs also the
\* empty array)
AbsentOrEmpty(f, v) ==
  \/ v \in {Undefined, Null, Str("")}
  \/ f = "movementIDs" /\ v = Arr(<<>>)

MissingRequired(c) == \E f \in Required(calls[c].op) : AbsentOrEmpty(f, calls[c].args[f])

RequiredMessages ==
  {"userID required", "firstDateStr and lastDateStr required", "ianaTimezoneID required",
   "workoutID required", "workoutSessionID required", "movementIDs required"}

SuccessPathValue(res) == settle(Undefined, [res EXCEPT !.status = 200], readBody(res).parsed).value

\* C2: for every response the transport returns, _request fails with HttpError
\* exactly when the status is outside 200-299; the error carries the status, the
\* status text, the resolved URL and the body the success path would have
\* returned; within 200-299 the call returns that parsed body and raises nothing.
C2_HttpErrorIffNot2xx ==
  \A c \in CallIds :
    Answered(c) =>
      LET r == calls[c].res
          o == calls[c].out
          is2xx == r.status \in 200..299
      IN /\ is2xx => o = Resolved(SuccessPathValue(r))
         /\ ~is2xx =>
              /\ o.kind = "rejected"
              /\ o.error.name = "HttpError"
              /\ o.error.status = r.status
              /\ o.error.statusText = r.statusText
              /\ o.error.url = calls[c].req.url
              /\ o.error.body = SuccessPathValue(r)

C2_Witness ==
  \E c \in CallIds :
    /\ Answered(c)
    /\ calls[c].res.status = 404
    /\ calls[c].res.body = stringifyValue(Obj(<< <<"error", Str("nope")>> >>))
    /\ calls[c].out.kind = "rejected"
    /\ calls[c].out.error.name = "HttpError"
    /\ calls[c].out.error.status = 404
    /\ calls[c].out.error.body = Obj(<< <<"error", Str("nope")>> >>)

\* a response whose content-type header is present and mentions application/json
DeclaresJson(res) ==
  /\ res.contentType # Null
  /\ "application/json" \in {res.contentType.v[i] : i \in 1..Len(res.contentType.v)}

\* C3: the parsed body is chosen by the declared content-type alone: a response
\* that declares JSON is read with the JSON reader and its decoded value is
\* returned as it is; any other response (a missing content-type included) is read
\* as text, its raw text is returned unchanged and the JSON reader is not called.
C3_ContentTypeChoosesReader ==
  \A c \in CallIds :
    Answered(c) =>
      LET r == calls[c].res
      IN /\ DeclaresJson(r) =>
              /\ calls[c].reader = "json"
              /\ (r.readable /\ JsonParse(r.body).ok) => calls[c].parsed = JsonParse(r.body).val
         /\ ~DeclaresJson(r) =>
              /\ calls[c].reader = "text"
              /\ r.readable => calls[c].parsed = Text(r.body)
         /\ r.status \in 200..299 => calls[c].out = Resolved(calls[c].parsed)

C3_Witness ==
  \E c \in CallIds :
    /\ Answered(c)
    /\ calls[c].res.status = 200
    /\ calls[c].res.contentType = Text(<<"text/plain">>)
    /\ calls[c].res.body = <<QUOTE, "plain", QUOTE>>
    /\ JsonParse(calls[c].res.body).ok
    /\ calls[c].reader = "text"
    /\ calls[c].out = Resolved(Text(<<QUOTE, "plain", QUOTE>>))

\* the error a body reader raises when the body stream breaks
BodyReadError == Error("TypeError", "terminated")

\* C4 as stated: when the response declares JSON and decoding its body throws,
\* the parsed body is null (a 2xx response returns null, a non-2xx response raises
\* HttpError with body null); no other error raised during a call is swallowed, so
\* a body stream that breaks while it is read fails the call with that error.
C4_OnlyDecodeFailureSwallowed ==
  \A c \in CallIds :
    Answered(c) =>
      LET r == calls[c].res
          o == calls[c].out
      IN /\ (DeclaresJson(r) /\ r.readable /\ ~JsonParse(r.body).ok) =>
              /\ calls[c].parsed = Null
              /\ r.status \in 200..299 => o = Resolved(Null)
              /\ r.status \notin 200..299 =>
                   (o.kind = "rejected" /\ o.error.name = "HttpError" /\ o.error.body = Null)
         /\ ~r.readable => o = Rejected(BodyReadError)

\* the part of C4 the code keeps: the lenient decoding of a declared JSON body
C4_LenientDecode ==
  \A c \in CallIds :
    (Answered(c) /\ DeclaresJson(calls[c].res) /\ calls[c].res.readable
       /\ ~JsonParse(calls[c].res.body).ok) =>
      /\ calls[c].parsed = Null
      /\ calls[c].res.status \in 200..299 => calls[c].out = Resolved(Null)
      /\ calls[c].res.status \notin 200..299 =>
           (calls[c].out.kind = "rejected" /\ calls[c].out.error.name = "HttpError"
              /\ calls[c].out.error.body = Null)

\* a body was supplied: the descriptor's body is neither undefined nor null
Supplied(body) == body # Undefined /\ body # Null

\* C5: for every request handed to the transport, Authorization is "Bearer
\* <token>" and Accept is set; when the method is not GET and a body was
\* supplied, Content-Type is application/json and the request body is exactly the
\* JSON serialisation of the supplied body (decoding it gives the body back); when
\* the method is GET there is no Content-Type header and no request body, whether
\* or not a body was supplied.
C5_RequestHeadersAndBody ==
  \A c \in CallIds :
    Sent(c) =>
      LET i == calls[c].req.init
          d == calls[c].desc
      IN /\ i.headers["Authorization"] = "Bearer " \o client.token.v
         /\ "Accept" \in DOMAIN i.headers
         /\ i.method = (IF d.method = Undefined THEN Str("GET") ELSE d.method)
         /\ (i.method # Str("GET") /\ Supplied(d.body)) =>
              /\ "Content-Type" \in DOMAIN i.headers
              /\ i.headers["Content-Type"] = "application/json"
              /\ i.body = Text(stringifyValue(d.body))
              /\ JsonParse(i.body.v) = [ok |-> TRUE, val |-> d.body]
         /\ i.method = Str("GET") =>
              /\ "Content-Type" \notin DOMAIN i.headers
              /\ i.body = Undefined

C5_Witness ==
  \E c \in CallIds :
    /\ Sent(c)
    /\ calls[c].desc.method = Str("POST")
    /\ calls[c].desc.body = Num(0)
    /\ calls[c].req.init.headers["Content-Type"] = "application/json"
    /\ calls[c].req.init.body = Text(<<"0">>)

\* the entries of the query handed to buildUrl, as <<name, value>> pairs
Entries(q) == IF q.t \in {"object", "URLSearchParams"} THEN q.v ELSE <<>>
Names(es) == {es[i][1] : i \in 1..Len(es)}
\* the pairs of a list that carry the name k, in order
Named(es, k) == SelectSeq(es, LAMBDA e : e[1] = k)
\* the last value supplied for the name k
LastSupplied(es, k) ==
  es[CHOOSE i \in 1..Len(es) : es[i][1] = k /\ \A j \in 1..Len(es) : es[j][1] = k => j <= i][2]
\* a supplied value that is null or undefined (the values of a URLSearchParams
\* are strings, never null)
Nullish(q, v) == q.t = "object" /\ v \in {Undefined, Null}
\* the text of a supplied value in the URL
TextOf(q, v) ==
  IF q.t = "URLSearchParams" THEN v
  ELSE CASE v = Str("x") -> "x"
         [] v = Num(0) -> "0"
         [] v = Bool(FALSE) -> "false"
         [] OTHER -> "?"
\* the parameters of the path whose name is not among the supplied names
NotSupplied(es, supplied) == SelectSeq(es, LAMBDA e : e[1] \notin supplied)

\* C6 as stated: a key whose supplied value is null or undefined does not appear
\* in the built URL; a key whose supplied value is defined appears exactly once,
\* with the last value supplied for it; the path's parameters whose key is not
\* supplied are preserved.
C6_NullishKeysAbsent ==
  (built # NotBuilt /\ built.result.ok) =>
    LET es == Entries(built.query)
        out == built.result.url.search
    IN /\ \A k \in Names(es) :
            IF Nullish(built.query, LastSupplied(es, k))
            THEN Named(out, k) = <<>>
            ELSE Named(out, k) = << <<k, TextOf(built.query, LastSupplied(es, k))>> >>
       /\ NotSupplied(out, Names(es)) = NotSupplied(built.path.search, Names(es))

\* C6, amended: a key whose supplied value is null or undefined is skipped: it adds
\* nothing to the built URL and the occurrences of that key already in the path
\* stay as they are (so it is absent from the URL only when the path does not
\* carry it); a key whose supplied value is defined appears exactly once, with the
\* last value supplied for it, replacing every occurrence of that key already in
\* the path; the path's parameters whose key is not supplied are preserved.
C6_NullishKeysSkipped ==
  (built # NotBuilt /\ built.result.ok) =>
    LET es == Entries(built.query)
        out == built.result.url.search
    IN /\ \A k \in Names(es) :
            IF Nullish(built.query, LastSupplied(es, k))
            THEN Named(out, k) = Named(built.path.search, k)
            ELSE Named(out, k) = << <<k, TextOf(built.query, LastSupplied(es, k))>> >>
       /\ NotSupplied(out, Names(es)) = NotSupplied(built.path.search, Names(es))

C6_Witness ==
  /\ built # NotBuilt
  /\ built.path.search = << <<"a", "1">>, <<"a", "2">> >>
  /\ built.query = Obj(<< <<"a", Num(0)>>, <<"b", Null>> >>)
  /\ built.result.ok
  /\ built.result.url.search = << <<"a", "0">> >>

\* whether the request of a descriptor can be built on this client: the resolved
\* base is an absolute URL and the body to send, if any, is serialisable
Buildable(cl, d) ==
  /\ IsAbsoluteUrl(IF d.base = Str("website") THEN cl.websiteBaseUrl ELSE cl.rockyBaseUrl)
  /\ (Supplied(d.body) /\ d.method \notin {Undefined, Str("GET")}) => ~HasCycle(d.body)

\* C7 as stated: a transport failure fails the call with that same failure, not
\* wrapped as an HttpError, without a second invocation; every call that passes
\* validation invokes the transport exactly once, whatever its outcome.
C7_EveryValidCallFetchesOnce ==
  \A c \in CallIds :
    /\ calls[c].failure # NoError =>
         (calls[c].pc = "done" /\ calls[c].out = Rejected(calls[c].failure))
    /\ (Started(c) /\ Method(calls[c].op, calls[c].args).ok) => calls[c].fetched = 1

\* C7, amended: a transport failure fails the call with that same failure, not
\* wrapped or reclassified as HttpError, and the transport is not invoked again;
\* every call that passes validation and whose request (URL and serialised body)
\* can be built invokes the transport exactly once, whatever its outcome, and a
\* call that fails while its request is built never invokes it.
C7_NoRetryNoWrap ==
  \A c \in CallIds :
    /\ calls[c].fetched <= 1
    /\ calls[c].failure # NoError =>
         /\ calls[c].pc = "done"
         /\ calls[c].out = Rejected(calls[c].failure)
         /\ calls[c].out.error.name # "HttpError"
         /\ calls[c].fetched = 1
    /\ (Started(c) /\ Method(calls[c].op, calls[c].args).ok) =>
         IF Buildable(client, Method(calls[c].op, calls[c].args).req)
         THEN calls[c].fetched = 1
         ELSE calls[c].fetched = 0 /\ calls[c].pc = "done"
                /\ calls[c].out.kind = "rejected" /\ calls[c].out.error.name = "TypeError"

C7_Witness ==
  \E c \in CallIds :
    /\ calls[c].pc = "done"
    /\ calls[c].failure = Error("TypeError", "fetch failed")
    /\ calls[c].out = Rejected(Error("TypeError", "fetch failed"))
    /\ calls[c].fetched = 1

\* C8: calls issued concurrently on one client are independent under every
\* interleaving of their suspension points: the client's configuration stays what
\* the constructor made it, each call's request is the one its own descriptor
\* gives on that configuration, each call's outcome is the one its own response
\* (or its own transport failure) gives, and two calls with the same descriptor
\* and the same response end the same way.
C8_CallsIndependent ==
  client # NoClient =>
    /\ client = LadderClient(ctorOpts, hasGlobalFetch).client
    /\ \A c \in CallIds :
         Started(c) =>
           LET m == Method(calls[c].op, calls[c].args)
           IN /\ (m.ok /\ Buildable(client, m.req)) =>
                   LET r == prepareRequest(LadderClient(ctorOpts, hasGlobalFetch).client, m.req)
                   IN calls[c].req = [ok |-> TRUE, url |-> r.url, init |-> r.init]
              /\ Answered(c) =>
                   calls[c].out = settle(calls[c].req.url, calls[c].res,
                                         readBody(calls[c].res).parsed)
              /\ calls[c].failure # NoError => calls[c].out = Rejected(calls[c].failure)
    /\ \A c, d \in CallIds :
         (calls[c].pc = "done" /\ calls[d].pc = "done" /\ calls[c].op = calls[d].op
            /\ calls[c].args = calls[d].args /\ calls[c].res = calls[d].res
            /\ calls[c].failure = calls[d].failure) =>
           (calls[c].out = calls[d].out /\ calls[c].req = calls[d].req)

C8_Witness ==
  /\ calls[1].pc = "done"
  /\ calls[1].op = "getWorkout"
  /\ calls[1].out.kind = "resolved"
  /\ calls[2].pc = "body"
  /\ calls[2].op = "getMe"
  /\ calls[2].req.url.origin = DEFAULT_ROCKY_BASE[1]
  /\ calls[2].res.status = 404

\* C9: constructing a client with an absent or empty token throws the
\* missing-token Error and yields no client; with a non-empty token and a
\* transport available (supplied, or native to the runtime) construction
\* succeeds; with a non-empty token and no transport at all it throws the
\* no-transport Error.
C9_ConstructorOutcome ==
  ctorOpts # NoOpts =>
    LET noToken == ctorOpts.token \in {Undefined, Null, Str("")}
        transport == ctorOpts.fetchImpl # Undefined \/ hasGlobalFetch
    IN /\ noToken =>
            (client = NoClient
               /\ ctorError = Error("Error", "LadderClient requires a Bearer token"))
       /\ (~noToken /\ transport) =>
            (client # NoClient /\ ctorError = NoError /\ client.token = ctorOpts.token)
       /\ (~noToken /\ ~transport) =>
            (client = NoClient
               /\ ctorError = Error("Error",
                     "No fetch implementation found; Node 18+ or provide fetchImpl"))

C9_Witness ==
  /\ ctorOpts # NoOpts
  /\ ctorOpts.token = Str("")
  /\ ctorOpts.fetchImpl = Undefined
  /\ ~hasGlobalFetch
  /\ client = NoClient
  /\ ctorError = Error("Error", "LadderClient requires a Bearer token")

\* a base selector that is neither of the two recognised ones (an absent
\* selector takes the default "rocky")
Unrecognised(base) == base \notin {Undefined, Str("rocky"), Str("website")}

\* C10 as stated: there are exactly two recognised selectors, each mapped to its
\* host (getWorkout the secondary, every other wrapper the primary); a call
\* whose selector is any other value fails with an invalid-argument error and the
\* transport is not invoked.
C10_OtherSelectorRejected ==
  \A c \in CallIds :
    (Started(c) /\ calls[c].desc # Undefined) =>
      /\ Sent(c) =>
           calls[c].req.url.origin =
             (IF calls[c].desc.base = Str("website")
              THEN client.websiteBaseUrl[1] ELSE client.rockyBaseUrl[1])
      /\ Unrecognised(calls[c].desc.base) =>
           (calls[c].fetched = 0 /\ calls[c].pc = "done" /\ calls[c].out.kind # "resolved")

\* C10, amended: _request maps the selector "website" to the configured secondary
\* host and every other selector value ("rocky", an absent selector, and any
\* unrecognised value alike) to the configured primary host; getWorkout uses the
\* secondary host and every other wrapper the primary host; no selector value
\* makes a call fail: a call with an unrecognised selector whose request can be
\* built is handed to the transport on the primary host.
C10_OtherSelectorIsPrimary ==
  \A c \in CallIds :
    (Started(c) /\ calls[c].desc # Undefined) =>
      /\ Sent(c) =>
           calls[c].req.url.origin =
             (IF calls[c].desc.base = Str("website")
              THEN client.websiteBaseUrl[1] ELSE client.rockyBaseUrl[1])
      /\ calls[c].op = "getWorkout" => calls[c].desc.base = Str("website")
      /\ calls[c].op \notin {"getWorkout", "_request"} => calls[c].desc.base = Str("rocky")
      /\ (Unrecognised(calls[c].desc.base) /\ Buildable(client, calls[c].desc)) =>
           (calls[c].fetched = 1 /\ Sent(c)
              /\ calls[c].req.url.origin = client.rockyBaseUrl[1])

C10_Witness ==
  \E c \in CallIds :
    /\ calls[c].pc = "fetch"
    /\ calls[c].desc.base = Str("webiste")
    /\ calls[c].fetched = 1
    /\ calls[c].req.url.origin = DEFAULT_ROCKY_BASE[1]

\* a string that ends with a slash
EndsWithSlash(s) == Len(s) > 0 /\ s[Len(s)] = "/"

\* the base URL string the constructor was given: the override, or the default
GivenBase(override, default) == IF override = Undefined THEN default ELSE override.v

\* C11 as stated: for every client that was constructed successfully, whatever
\* base URL strings were passed as overrides (ones ending in one or several
\* slashes included), the stored token is non-empty and neither the stored
\* primary base URL nor the stored secondary base URL ends with a slash.
C11_NoTrailingSlashStored ==
  client # NoClient =>
    /\ client.token \notin {Undefined, Null, Str("")}
    /\ ~EndsWithSlash(client.rockyBaseUrl)
    /\ ~EndsWithSlash(client.websiteBaseUrl)

\* the part of C11 the code keeps: the stored token is non-empty, and each stored
\* base URL is the given one less one trailing slash, so it ends with no slash
\* whenever the given one ends with at most one
C11_OneSlashStripped ==
  client # NoClient =>
    /\ client.token \notin {Undefined, Null, Str("")}
    /\ client.token = ctorOpts.token
    /\ \A b \in {<<client.rockyBaseUrl, GivenBase(ctorOpts.rockyBaseUrl, DEFAULT_ROCKY_BASE)>>,
                 <<client.websiteBaseUrl,
                   GivenBase(ctorOpts.websiteBaseUrl, DEFAULT_WEBSITE_BASE)>>} :
         /\ EndsWithSlash(b[2]) => b[1] = SubSeq(b[2], 1, Len(b[2]) - 1)
         /\ ~EndsWithSlash(b[2]) => b[1] = b[2]
         /\ (Len(b[2]) < 2 \/ b[2][Len(b[2]) - 1] # "/") => ~EndsWithSlash(b[1])

====
